---- MODULE Spec2Model ----
(***************************************************************************)
(* A model of ReportGenerator (src/src/report_generator.py): the pandas    *)
(* DataFrame self.data is a record of columns, every method is an operator *)
(* from the DataFrame to the DataFrame it leaves behind plus what it       *)
(* returns or raises, and every action is one call of a method (or one of  *)
(* the column assignments the tests make on report.data).                  *)
(*                                                                         *)
(* Timestamps are counted in half-hours from Monday 2023-10-23 00:00, the  *)
(* day before the tests' 2023-10-24; volumes and prices are integers, so   *)
(* sums and products are exact, and a quotient is a fraction [num, den]    *)
(* in lowest terms whose den = 0 stands for NaN (0/0).                     *)
(***************************************************************************)
EXTENDS Integers, Sequences, FiniteSets

\* data is self.data; called and ret are the last call made on the report and
\* what it returned or raised; cost_calls is a history variable, the number
\* of calls of calculate_daily_imbalance_cost made by the caller since the
\* fields were last assigned (2 stands for two or more). report_file is the
\* content of daily_imbalance_report.txt (<<>> while no file was written) and
\* response the JSON payload BMRSClient.get_system_prices receives.
VARIABLES data, called, ret, cost_calls, report_file, response

vars == <<data, called, ret, cost_calls, report_file, response>>

\* ---------------------------------------------------------------- bounds
MaxLen == 2
MaxVol == 1

\* Candidate timestamps of a series, in half-hours since Monday 00:00:
\* Tue 00:00, Tue 01:00, and Tue 00:00 of the following week.
TimeStamps == {48, 50, 384}

Volumes == (0 - MaxVol)..MaxVol

\* <<systemSellPrice, systemBuyPrice>> of one interval.
PricePairs == {<<1, 2>>, <<2, 2>>, <<0 - 1, 0 - 1>>}

\* ------------------------------------------------------------ arithmetic
Abs(x) == IF x < 0 THEN 0 - x ELSE x

RECURSIVE Gcd(_, _)
Gcd(a, b) == IF b = 0 THEN a ELSE Gcd(b, a % b)

\* The float num/den: a fraction in lowest terms with den > 0; 0/0 is NaN.
Div(num, den) ==
    IF den = 0 THEN [num |-> 0, den |-> 0]
    ELSE LET g == Gcd(Abs(num), Abs(den))
             s == IF den < 0 THEN 0 - 1 ELSE 1
         IN  [num |-> s * (num \div g), den |-> s * (den \div g)]

NaN == [num |-> 0, den |-> 0]

RECURSIVE SumSeq(_)
SumSeq(s) == IF s = <<>> THEN 0 ELSE Head(s) + SumSeq(Tail(s))

RECURSIVE SumOver(_, _)
\* Sum of f[i] over the indices i of the finite set S.
SumOver(S, f) ==
    IF S = {} THEN 0
    ELSE LET i == CHOOSE j \in S : TRUE IN f[i] + SumOver(S \ {i}, f)

\* n/d rounded to the nearest integer, halves to the even neighbour (d > 0).
RoundHalfEven(n, d) ==
    LET q == n \div d
        r == n % d
    IN  IF 2 * r < d THEN q
        ELSE IF 2 * r > d THEN q + 1
        ELSE IF q % 2 = 0 THEN q ELSE q + 1

\* round(x, 2) of a float: NaN stays NaN.
Round2(x) ==
    IF x.den = 0 THEN x ELSE Div(RoundHalfEven(100 * x.num, x.den), 100)

\* ------------------------------------------------------------- DataFrame
Rows(d) == 1..Len(d.index)

\* self.data.index.hour and self.data.index.date of a timestamp.
HourOf(ts) == (ts \div 2) % 24
DateOf(ts) == ts \div 48

RequiredColumns == {"systemSellPrice", "systemBuyPrice", "netImbalanceVolume"}

\* d with column c set to the values v.
SetColumn(d, c, v) ==
    [d EXCEPT !.columns = @ \cup {c}, ![c] = v]

Returns(d, v) == [data |-> d, raised |-> "none", val |-> v]
Raises(d, e) == [data |-> d, raised |-> e, val |-> 0]

\* The keys of data.groupby('hour') and data.groupby('date').
Hours(d) == {HourOf(d.index[i]) : i \in Rows(d)}
Dates(d) == {DateOf(d.index[i]) : i \in Rows(d)}

RowsInHour(d, h) == {i \in Rows(d) : HourOf(d.index[i]) = h}
RowsOnDate(d, dt) == {i \in Rows(d) : DateOf(d.index[i]) = dt}

\* Mutant of imbalance_costs: the two prices swapped.
imbalance_costs_swapped(d) ==
    [i \in Rows(d) |->
        IF d.netImbalanceVolume[i] < 0
        THEN Abs(d.netImbalanceVolume[i]) * d.systemBuyPrice[i]
        ELSE Abs(d.netImbalanceVolume[i]) * d.systemSellPrice[i]]

\* Mutant of imbalance_costs: the volume without abs().
imbalance_costs_signed(d) ==
    [i \in Rows(d) |->
        IF d.netImbalanceVolume[i] < 0
        THEN d.netImbalanceVolume[i] * d.systemSellPrice[i]
        ELSE d.netImbalanceVolume[i] * d.systemBuyPrice[i]]

\* np.where(volume < 0, abs(volume) * sell, abs(volume) * buy)
imbalance_costs(d) ==
    [i \in Rows(d) |->
        IF d.netImbalanceVolume[i] < 0
        THEN Abs(d.netImbalanceVolume[i]) * d.systemSellPrice[i]
        ELSE Abs(d.netImbalanceVolume[i]) * d.systemBuyPrice[i]]

\* Mutant of calculate_daily_imbalance_cost: the costs added to the column
\* already there instead of replacing it.
calculate_daily_imbalance_cost_accumulating(d) ==
    IF ~(RequiredColumns \subseteq d.columns) THEN Raises(d, "KeyError")
    ELSE LET new == imbalance_costs(d)
             d1 == SetColumn(d, "imbalanceCost",
                       IF "imbalanceCost" \in d.columns
                       THEN [i \in Rows(d) |-> d.imbalanceCost[i] + new[i]]
                       ELSE new)
         IN  Returns(d1, SumSeq(d1.imbalanceCost))

calculate_daily_imbalance_cost(d) ==
    IF ~(RequiredColumns \subseteq d.columns) THEN Raises(d, "KeyError")
    ELSE LET d1 == SetColumn(d, "imbalanceCost", imbalance_costs(d))
         IN  Returns(d1, SumSeq(d1.imbalanceCost))

\* Mutant of calculate_unit_rate: the division without its guard.
calculate_unit_rate_unguarded(d) ==
    IF "netImbalanceVolume" \notin d.columns THEN Raises(d, "KeyError")
    ELSE LET total_volume == SumSeq([i \in Rows(d) |-> Abs(d.netImbalanceVolume[i])])
             total_cost == calculate_daily_imbalance_cost(d)
         IN  IF total_cost.raised # "none" THEN total_cost
             ELSE Returns(total_cost.data, Div(total_cost.val, total_volume))

\* Mutant of calculate_unit_rate: the volumes summed without .abs().
calculate_unit_rate_signed_volume(d) ==
    IF "netImbalanceVolume" \notin d.columns THEN Raises(d, "KeyError")
    ELSE LET total_volume == SumSeq(d.netImbalanceVolume)
             total_cost == calculate_daily_imbalance_cost(d)
         IN  IF total_cost.raised # "none" THEN total_cost
             ELSE Returns(total_cost.data,
                          IF total_volume > 0
                          THEN Div(total_cost.val, total_volume)
                          ELSE Div(0, 1))

calculate_unit_rate(d) ==
    IF "netImbalanceVolume" \notin d.columns THEN Raises(d, "KeyError")
    ELSE LET total_volume == SumSeq([i \in Rows(d) |-> Abs(d.netImbalanceVolume[i])])
             total_cost == calculate_daily_imbalance_cost(d)
         IN  IF total_cost.raised # "none" THEN total_cost
             ELSE Returns(total_cost.data,
                          IF total_volume > 0
                          THEN Div(total_cost.val, total_volume)
                          ELSE Div(0, 1))

\* groupby('hour')['netImbalanceVolume'].sum().abs()
hourly_imbalance(d) ==
    [h \in Hours(d) |->
        Abs(SumOver(RowsInHour(d, h), d.netImbalanceVolume))]

\* Mutant of idxmax: the last key that holds the maximum.
idxmax_last(s) ==
    CHOOSE k \in DOMAIN s :
        /\ \A j \in DOMAIN s : s[j] <= s[k]
        /\ \A j \in DOMAIN s : s[j] = s[k] => j <= k

\* Series.idxmax(): the first key, in the sorted order of groupby, that
\* holds the maximum.
idxmax(s) ==
    CHOOSE k \in DOMAIN s :
        /\ \A j \in DOMAIN s : s[j] <= s[k]
        /\ \A j \in DOMAIN s : s[j] = s[k] => k <= j

\* Mutant of hour_with_highest_imbalance: the volume column replaced by its
\* absolute values before grouping.
hour_with_highest_imbalance_abs_in_place(d) ==
    LET d0 == IF "netImbalanceVolume" \notin d.columns THEN d
              ELSE SetColumn(d, "netImbalanceVolume",
                             [i \in Rows(d) |-> Abs(d.netImbalanceVolume[i])])
        d1 == SetColumn(d0, "hour", [i \in Rows(d) |-> HourOf(d.index[i])])
    IN  IF "netImbalanceVolume" \notin d1.columns THEN Raises(d1, "KeyError")
        ELSE IF Hours(d1) = {} THEN Raises(d1, "ValueError")
        ELSE Returns(d1, idxmax(hourly_imbalance(d1)))

\* Mutant of hour_with_highest_imbalance: hour 0 for a series without rows.
hour_with_highest_imbalance_default(d) ==
    LET d1 == SetColumn(d, "hour", [i \in Rows(d) |-> HourOf(d.index[i])])
    IN  IF "netImbalanceVolume" \notin d1.columns THEN Raises(d1, "KeyError")
        ELSE IF Hours(d1) = {} THEN Returns(d1, 0)
        ELSE Returns(d1, idxmax(hourly_imbalance(d1)))

hour_with_highest_imbalance(d) ==
    LET d1 == SetColumn(d, "hour", [i \in Rows(d) |-> HourOf(d.index[i])])
    IN  IF "netImbalanceVolume" \notin d1.columns THEN Raises(d1, "KeyError")
        ELSE IF Hours(d1) = {} THEN Raises(d1, "ValueError")
        ELSE Returns(d1, idxmax(hourly_imbalance(d1)))

\* Mutant of calculate_daily_average_imbalance: the mean of the absolute
\* volumes.
calculate_daily_average_imbalance_abs(d) ==
    IF "netImbalanceVolume" \notin d.columns THEN Raises(d, "KeyError")
    ELSE LET daily_average ==
                 Div(SumSeq([i \in Rows(d) |-> Abs(d.netImbalanceVolume[i])]),
                     Len(d.index))
         IN  Returns(d, Round2(daily_average))

calculate_daily_average_imbalance(d) ==
    IF "netImbalanceVolume" \notin d.columns THEN Raises(d, "KeyError")
    ELSE LET daily_average == Div(SumSeq(d.netImbalanceVolume), Len(d.index))
         IN  Returns(d, Round2(daily_average))

\* The np.where of calculate_hourly_imbalance_cost.
hourlyImbalanceCost(d) ==
    [i \in Rows(d) |->
        IF d.netImbalanceVolume[i] < 0
        THEN Abs(d.netImbalanceVolume[i]) * d.systemSellPrice[i]
        ELSE Abs(d.netImbalanceVolume[i]) * d.systemBuyPrice[i]]

\* Mutant of calculate_hourly_imbalance_cost: the result reindexed over the
\* 24 hours of the day, 0 where the series has no interval.
calculate_hourly_imbalance_cost_all_hours(d) ==
    LET d1 == SetColumn(d, "hour", [i \in Rows(d) |-> HourOf(d.index[i])])
    IN  IF ~(RequiredColumns \subseteq d1.columns) THEN Raises(d1, "KeyError")
        ELSE LET d2 == SetColumn(d1, "hourlyImbalanceCost", hourlyImbalanceCost(d1))
             IN  Returns(d2, [h \in 0..23 |->
                                 SumOver(RowsInHour(d2, h), d2.hourlyImbalanceCost)])

calculate_hourly_imbalance_cost(d) ==
    LET d1 == SetColumn(d, "hour", [i \in Rows(d) |-> HourOf(d.index[i])])
    IN  IF ~(RequiredColumns \subseteq d1.columns) THEN Raises(d1, "KeyError")
        ELSE LET d2 == SetColumn(d1, "hourlyImbalanceCost", hourlyImbalanceCost(d1))
             IN  Returns(d2, [h \in Hours(d2) |->
                                 SumOver(RowsInHour(d2, h), d2.hourlyImbalanceCost)])

\* Mutant of WeekOf: the week labelled by the first Sunday after the date,
\* so that a Sunday falls in the following week.
WeekOf_after(dt) == dt + (7 - ((dt + 1) % 7))

\* resample('W'): a date falls in the week labelled by the first Sunday on
\* or after it (day 0 is a Monday, so Sundays are the days 6, 13, ...).
WeekOf(dt) == dt + (6 - (dt % 7))

calculate_weekly_trend(d) ==
    LET d1 == SetColumn(d, "date", [i \in Rows(d) |-> DateOf(d.index[i])])
    IN  IF "imbalanceCost" \notin d1.columns THEN Raises(d1, "KeyError")
        ELSE LET daily_cost == [dt \in Dates(d1) |->
                                   SumOver(RowsOnDate(d1, dt), d1.imbalanceCost)]
                 weeks == {WeekOf(dt) : dt \in Dates(d1)}
                 first == CHOOSE w \in weeks : \A x \in weeks : w <= x
                 last == CHOOSE w \in weeks : \A x \in weeks : x <= w
                 n == IF weeks = {} THEN 0 ELSE ((last - first) \div 7) + 1
             IN  Returns(d1,
                    [k \in 1..n |->
                        LET w == first + 7 * (k - 1)
                        IN  [week |-> w,
                             total |-> SumOver({dt \in Dates(d1) : WeekOf(dt) = w},
                                               daily_cost)]])

\* f"{x:.2f}": the float x written with two decimals (NaN is written nan).
Format2f(x) == Round2(x)

\* Series.max() of a non-empty series.
SeriesMax(s) == CHOOSE m \in {s[k] : k \in DOMAIN s} : \A k \in DOMAIN s : s[k] <= m

\* Mutant of generate_report_message: a calculation that fails is skipped
\* and the message is returned with the value 0 in its place.
generate_report_message_partial(d, include_weekly_trend) ==
    LET total_cost == calculate_daily_imbalance_cost(d)
        peak_hour == hour_with_highest_imbalance(total_cost.data)
        report_message ==
            [total_cost |-> Format2f(Div(total_cost.val, 1)),
             unit_rate |-> Format2f(Div(0, 1)),
             peak_hour |-> peak_hour.val,
             daily_average |-> Format2f(Div(0, 1)),
             peak_hourly_cost |-> Format2f(Div(0, 1)),
             peak_cost_hour |-> 0,
             include_weekly_trend |-> include_weekly_trend,
             weekly_trend |-> <<>>]
    IN  Returns(peak_hour.data, report_message)

\* Mutant of generate_report_message: the weekly trend is taken from the
\* series as it was before the total cost was computed.
generate_report_message_weekly_first(d, include_weekly_trend) ==
    LET total_cost == calculate_daily_imbalance_cost(d)
        unit_rate == calculate_unit_rate(total_cost.data)
        peak_hour == hour_with_highest_imbalance(unit_rate.data)
        daily_average == calculate_daily_average_imbalance(peak_hour.data)
        hourly_cost == calculate_hourly_imbalance_cost(daily_average.data)
        weekly_trend == calculate_weekly_trend(d)
        report_message ==
            [total_cost |-> Format2f(Div(total_cost.val, 1)),
             unit_rate |-> Format2f(unit_rate.val),
             peak_hour |-> peak_hour.val,
             daily_average |-> Format2f(daily_average.val),
             peak_hourly_cost |-> Format2f(Div(SeriesMax(hourly_cost.val), 1)),
             peak_cost_hour |-> idxmax(hourly_cost.val),
             include_weekly_trend |-> include_weekly_trend,
             weekly_trend |-> IF include_weekly_trend THEN weekly_trend.val ELSE <<>>]
    IN  IF total_cost.raised # "none" THEN Raises(total_cost.data, total_cost.raised)
        ELSE IF unit_rate.raised # "none" THEN Raises(unit_rate.data, unit_rate.raised)
        ELSE IF peak_hour.raised # "none" THEN Raises(peak_hour.data, peak_hour.raised)
        ELSE IF daily_average.raised # "none"
             THEN Raises(daily_average.data, daily_average.raised)
        ELSE IF hourly_cost.raised # "none"
             THEN Raises(hourly_cost.data, hourly_cost.raised)
        ELSE IF DOMAIN hourly_cost.val = {}
             THEN Raises(hourly_cost.data, "ValueError")
        ELSE IF ~include_weekly_trend THEN Returns(hourly_cost.data, report_message)
        ELSE IF weekly_trend.raised # "none"
             THEN Raises(weekly_trend.data, weekly_trend.raised)
        ELSE Returns(weekly_trend.data, report_message)

\* The report message, by the values its lines print (hourly_cost.idxmax()
\* of an hourly cost without hours raises ValueError); weekly_trend is the
\* table weekly_trend.to_string() appends, <<>> when it is not included.
generate_report_message(d, include_weekly_trend) ==
    LET total_cost == calculate_daily_imbalance_cost(d)
        unit_rate == calculate_unit_rate(total_cost.data)
        peak_hour == hour_with_highest_imbalance(unit_rate.data)
        daily_average == calculate_daily_average_imbalance(peak_hour.data)
        hourly_cost == calculate_hourly_imbalance_cost(daily_average.data)
        weekly_trend == calculate_weekly_trend(hourly_cost.data)
        report_message ==
            [total_cost |-> Format2f(Div(total_cost.val, 1)),
             unit_rate |-> Format2f(unit_rate.val),
             peak_hour |-> peak_hour.val,
             daily_average |-> Format2f(daily_average.val),
             peak_hourly_cost |-> Format2f(Div(SeriesMax(hourly_cost.val), 1)),
             peak_cost_hour |-> idxmax(hourly_cost.val),
             include_weekly_trend |-> include_weekly_trend,
             weekly_trend |-> IF include_weekly_trend THEN weekly_trend.val ELSE <<>>]
    IN  IF total_cost.raised # "none" THEN Raises(total_cost.data, total_cost.raised)
        ELSE IF unit_rate.raised # "none" THEN Raises(unit_rate.data, unit_rate.raised)
        ELSE IF peak_hour.raised # "none" THEN Raises(peak_hour.data, peak_hour.raised)
        ELSE IF daily_average.raised # "none"
             THEN Raises(daily_average.data, daily_average.raised)
        ELSE IF hourly_cost.raised # "none"
             THEN Raises(hourly_cost.data, hourly_cost.raised)
        ELSE IF DOMAIN hourly_cost.val = {}
             THEN Raises(hourly_cost.data, "ValueError")
        ELSE IF ~include_weekly_trend THEN Returns(hourly_cost.data, report_message)
        ELSE IF weekly_trend.raised # "none"
             THEN Raises(weekly_trend.data, weekly_trend.raised)
        ELSE Returns(weekly_trend.data, report_message)

\* ------------------------------------------------------------------ Init
\* The strictly increasing sequences over TimeStamps of length at most n.
RECURSIVE Indexes(_)
Indexes(n) ==
    IF n = 0 THEN {<<>>}
    ELSE LET shorter == Indexes(n - 1)
         IN  shorter \cup
             {Append(s, t) : s \in {x \in shorter : Len(x) = n - 1}, t \in TimeStamps}

Increasing(s) == \A i \in 1..(Len(s) - 1) : s[i] < s[i + 1]

\* ReportGenerator(df): a DataFrame indexed by timestamp with the three
\* columns of BMRSClient.get_system_prices and of the tests' sample_data.
DataFrame(index, volume, price) ==
    [index |-> index,
     columns |-> RequiredColumns,
     netImbalanceVolume |-> volume,
     systemSellPrice |-> [i \in DOMAIN index |-> price[i][1]],
     systemBuyPrice |-> [i \in DOMAIN index |-> price[i][2]],
     imbalanceCost |-> <<>>,
     hour |-> <<>>,
     hourlyImbalanceCost |-> <<>>,
     date |-> <<>>]

Init ==
    /\ \E index \in {s \in Indexes(MaxLen) : Increasing(s)} :
       \E volume \in [DOMAIN index -> Volumes] :
       \E price \in [DOMAIN index -> PricePairs] :
          data = DataFrame(index, volume, price)
    /\ called = "__init__"
    /\ ret = [raised |-> "none", val |-> 0]
    /\ cost_calls = 0
    /\ report_file = <<>>
    /\ response = <<>>

\* Candidate timestamps for the weekly trend: Tue 00:00, Tue 01:00, Wed
\* 01:00, Sun 00:00, Mon 00:00 of the second week and Mon 00:00 of the
\* fourth.
TimeStampsWeekly == {48, 50, 98, 288, 336, 1008}

RECURSIVE IndexesOver(_, _)
IndexesOver(n, T) ==
    IF n = 0 THEN {<<>>}
    ELSE LET shorter == IndexesOver(n - 1, T)
         IN  shorter \cup
             {Append(s, t) : s \in {x \in shorter : Len(x) = n - 1}, t \in T}

InitWeekly ==
    /\ \E index \in {s \in IndexesOver(MaxLen, TimeStampsWeekly) : Increasing(s)} :
       \E volume \in [DOMAIN index -> Volumes] :
       \E price \in [DOMAIN index -> PricePairs] :
          data = DataFrame(index, volume, price)
    /\ called = "__init__"
    /\ ret = [raised |-> "none", val |-> 0]
    /\ cost_calls = 0
    /\ report_file = <<>>
    /\ response = <<>>

\* setup_method of the tests: n consecutive half-hours from Tuesday 00:00,
\* one sell and one buy price throughout, volumes alternating +v, -v.
sample_data(n, v, pp) ==
    DataFrame([i \in 1..n |-> 48 + (i - 1)],
              [i \in 1..n |-> IF i % 2 = 1 THEN v ELSE 0 - v],
              [i \in 1..n |-> pp])

InitTests ==
    /\ \E n \in 0..MaxLen : \E v \in 1..MaxVol : \E pp \in PricePairs :
          data = sample_data(n, v, pp)
    /\ called = "__init__"
    /\ ret = [raised |-> "none", val |-> 0]
    /\ cost_calls = 0
    /\ report_file = <<>>
    /\ response = <<>>

\* ------------------------------------------------------------ BMRSClient
\* A field of a raw JSON record: a number, a string that spells a timestamp
\* ("iso"), a string that spells neither ("text"), true, null, or no such
\* key in the record ("absent").
Number(n) == [kind |-> "number", value |-> n]
Iso(ts) == [kind |-> "iso", value |-> ts]
Text == [kind |-> "text", value |-> 0]
Bool == [kind |-> "bool", value |-> 1]
Null == [kind |-> "null", value |-> 0]
Absent == [kind |-> "absent", value |-> 0]

\* The i-th record of a response with nothing wrong in it.
RawRecord(i, volume) ==
    [startTime |-> Iso(48 + (i - 1)),
     systemSellPrice |-> Number(1),
     systemBuyPrice |-> Number(2),
     netImbalanceVolume |-> Number(volume)]

\* The records a response can hold in its i-th place: at most one field of
\* the record is not what the client expects.
RawRecords(i) ==
    {RawRecord(i, volume) : volume \in {0 - 1, 1}}
    \cup {[RawRecord(i, 0 - 1) EXCEPT !.startTime = f] : f \in {Text, Null, Absent}}
    \cup {[RawRecord(i, 0 - 1) EXCEPT ![key] = f] :
             key \in {"systemSellPrice", "systemBuyPrice", "netImbalanceVolume"},
             f \in {Text, Bool, Null, Absent}}

\* datetime.strptime(record['startTime'], "%Y-%m-%dT%H:%M:%SZ"): the
\* exception it raises, "none" if none.
Strptime(field) ==
    IF field.kind = "absent" THEN "KeyError"
    ELSE IF field.kind = "iso" THEN "none"
    ELSE IF field.kind = "text" THEN "ValueError"
    ELSE "TypeError"

\* float(record[key]): the exception it raises, "none" if none. float(True)
\* is 1.0.
Float(field) ==
    IF field.kind = "absent" THEN "KeyError"
    ELSE IF field.kind \in {"number", "bool"} THEN "none"
    ELSE IF field.kind \in {"text", "iso"} THEN "ValueError"
    ELSE "TypeError"

\* The exception raised while one record is transformed, "none" if none.
RecordError(record) ==
    IF Strptime(record.startTime) # "none" THEN Strptime(record.startTime)
    ELSE IF Float(record.systemSellPrice) # "none" THEN Float(record.systemSellPrice)
    ELSE IF Float(record.systemBuyPrice) # "none" THEN Float(record.systemBuyPrice)
    ELSE Float(record.netImbalanceVolume)

\* Before get_system_prices returns there is no DataFrame.
NoDataFrame == [DataFrame(<<>>, <<>>, <<>>) EXCEPT !.columns = {}]

\* The list comprehension stops at the first record it cannot transform;
\* set_index("timestamp") of a DataFrame built from no record raises KeyError.
get_system_prices(records) ==
    LET bad == {i \in DOMAIN records : RecordError(records[i]) # "none"}
        first == CHOOSE i \in bad : \A j \in bad : i <= j
    IN  IF bad # {} THEN Raises(NoDataFrame, RecordError(records[first]))
        ELSE IF records = <<>> THEN Raises(NoDataFrame, "KeyError")
        ELSE Returns(DataFrame([i \in DOMAIN records |-> records[i].startTime.value],
                               [i \in DOMAIN records |-> records[i].netImbalanceVolume.value],
                               [i \in DOMAIN records |->
                                   <<records[i].systemSellPrice.value,
                                     records[i].systemBuyPrice.value>>]),
                     0)

\* The responses of at most n records.
RECURSIVE Responses(_)
Responses(n) ==
    IF n = 0 THEN {<<>>}
    ELSE LET shorter == Responses(n - 1)
         IN  shorter \cup
             {Append(s, r) : s \in {x \in shorter : Len(x) = n - 1},
                             r \in RawRecords(n)}

InitClient ==
    /\ response \in Responses(MaxLen)
    /\ data = NoDataFrame
    /\ called = "__init__"
    /\ ret = [raised |-> "none", val |-> 0]
    /\ cost_calls = 0
    /\ report_file = <<>>

\* --------------------------------------------------------------- actions
Call(name, r) ==
    /\ data' = r.data
    /\ called' = name
    /\ ret' = [raised |-> r.raised, val |-> r.val]
    /\ cost_calls' = IF name # "calculate_daily_imbalance_cost" THEN cost_calls
                     ELSE IF cost_calls = 0 THEN 1 ELSE 2
    /\ UNCHANGED <<report_file, response>>

CalculateDailyImbalanceCost ==
    Call("calculate_daily_imbalance_cost", calculate_daily_imbalance_cost(data))

CalculateUnitRate ==
    Call("calculate_unit_rate", calculate_unit_rate(data))

HourWithHighestImbalance ==
    Call("hour_with_highest_imbalance", hour_with_highest_imbalance(data))

CalculateDailyAverageImbalance ==
    Call("calculate_daily_average_imbalance", calculate_daily_average_imbalance(data))

CalculateHourlyImbalanceCost ==
    Call("calculate_hourly_imbalance_cost", calculate_hourly_imbalance_cost(data))

CalculateWeeklyTrend ==
    Call("calculate_weekly_trend", calculate_weekly_trend(data))

\* report.data['netImbalanceVolume'] = v
SetVolume ==
    \E v \in Volumes :
        /\ data' = SetColumn(data, "netImbalanceVolume", [i \in Rows(data) |-> v])
        /\ called' = "set_volume"
        /\ ret' = [raised |-> "none", val |-> 0]
        /\ cost_calls' = 0
        /\ UNCHANGED <<report_file, response>>

\* report.data.drop(columns=['systemSellPrice'], inplace=True)
DropSellPrice ==
    /\ "systemSellPrice" \in data.columns
    /\ data' = [data EXCEPT !.columns = @ \ {"systemSellPrice"},
                            !.systemSellPrice = <<>>]
    /\ called' = "drop"
    /\ ret' = [raised |-> "none", val |-> 0]
    /\ cost_calls' = 0
    /\ UNCHANGED <<report_file, response>>

GenerateReportMessage ==
    \E include_weekly_trend \in BOOLEAN :
        Call("generate_report_message",
             generate_report_message(data, include_weekly_trend))

\* save_report: the message is generated first and the file written after.
SaveReport ==
    \E include_weekly_trend \in BOOLEAN :
        LET report_message == generate_report_message(data, include_weekly_trend)
        IN  /\ data' = report_message.data
            /\ called' = "save_report"
            /\ ret' = [raised |-> report_message.raised, val |-> 0]
            /\ report_file' = IF report_message.raised # "none" THEN report_file
                              ELSE <<report_message.val>>
            /\ UNCHANGED <<cost_calls, response>>

\* The methods of ReportGenerator, called in any order.
Next ==
    \/ CalculateDailyImbalanceCost
    \/ CalculateUnitRate
    \/ HourWithHighestImbalance
    \/ CalculateDailyAverageImbalance
    \/ CalculateHourlyImbalanceCost
    \/ CalculateWeeklyTrend

Spec == Init /\ [][Next]_vars

\* The methods interleaved with the changes the tests make to report.data,
\* starting from the tests' sample data.
NextTests ==
    \/ Next
    \/ SetVolume
    \/ DropSellPrice

SpecTests == InitTests /\ [][NextTests]_vars

\* main(): the costs are computed, the report message is generated and the
\* report saved, here in any order and number, with the peak hour asked for
\* on its own as well, and interleaved with the changes the tests make to
\* report.data.
NextReport ==
    \/ CalculateDailyImbalanceCost
    \/ HourWithHighestImbalance
    \/ GenerateReportMessage
    \/ SaveReport
    \/ SetVolume
    \/ DropSellPrice

SpecReport == InitTests /\ [][NextReport]_vars

\* The costs and the weekly trend over series that span days and weeks.
NextWeekly ==
    \/ CalculateDailyImbalanceCost
    \/ CalculateWeeklyTrend

SpecWeekly == InitWeekly /\ [][NextWeekly]_vars

\* data = client.get_system_prices(target_date), once.
GetSystemPrices ==
    /\ called = "__init__"
    /\ LET df == get_system_prices(response)
       IN  /\ data' = df.data
           /\ ret' = [raised |-> df.raised, val |-> df.val]
    /\ called' = "get_system_prices"
    /\ UNCHANGED <<cost_calls, report_file, response>>

NextClient == GetSystemPrices

SpecClient == InitClient /\ [][NextClient]_vars

\* ---------------------------------------------------------------- claims
\* The directional pricing rule of one interval, from its current fields.
IntervalCost(i) ==
    LET v == data.netImbalanceVolume[i]
    IN  IF v < 0 THEN (0 - v) * data.systemSellPrice[i]
        ELSE v * data.systemBuyPrice[i]

HasRequired == RequiredColumns \subseteq data.columns

TotalCost == SumOver(Rows(data), [i \in Rows(data) |-> IntervalCost(i)])

TotalAbsVolume ==
    SumOver(Rows(data), [i \in Rows(data) |-> Abs(data.netImbalanceVolume[i])])

Returned(name) == called = name /\ ret.raised = "none"

C2_UnitRate ==
    (called = "calculate_unit_rate" /\ HasRequired) =>
        /\ ret.raised = "none"
        /\ ret.val.den > 0
        /\ IF TotalAbsVolume = 0
           THEN ret.val = [num |-> 0, den |-> 1]
           ELSE ret.val.num * TotalAbsVolume = ret.val.den * TotalCost

\* A series of two intervals, both of volume 0, has unit rate 0.
C2_Witness ==
    /\ Returned("calculate_unit_rate")
    /\ data.netImbalanceVolume = <<0, 0>>
    /\ ret.val = [num |-> 0, den |-> 1]

\* The rows of the series that fall in the week labelled w.
RowsInWeek(w) == {i \in Rows(data) : WeekOf(DateOf(data.index[i])) = w}

FreshCosts == [i \in Rows(data) |-> IntervalCost(i)]

\* C3: whatever changes were made to the volume and price fields between
\* the calls, the per-interval cost that calculate_hourly_imbalance_cost and
\* calculate_weekly_trend aggregate is the directional cost of the current
\* fields, never a cost computed from earlier field values (stated here for
\* the states in which an imbalanceCost column exists; C4 has the others).
C3_AggregatesUseCurrentFields ==
    /\ (called = "calculate_hourly_imbalance_cost" /\ HasRequired) =>
          /\ ret.raised = "none"
          /\ \A h \in DOMAIN ret.val :
                ret.val[h] = SumOver(RowsInHour(data, h), FreshCosts)
    /\ (called = "calculate_weekly_trend" /\ HasRequired
           /\ "imbalanceCost" \in data.columns) =>
          /\ ret.raised = "none"
          /\ \A k \in DOMAIN ret.val :
                ret.val[k].total = SumOver(RowsInWeek(ret.val[k].week), FreshCosts)

\* C4: on a non-empty series whose intervals all fall on one calendar day,
\* calculate_weekly_trend returns exactly one week bucket whose total is the
\* series' total imbalance cost, also as the first call on a new report.
C4_SingleDayWeeklyTrend ==
    (called = "calculate_weekly_trend" /\ HasRequired
        /\ Len(data.index) > 0 /\ Cardinality(Dates(data)) = 1) =>
        /\ ret.raised = "none"
        /\ Len(ret.val) = 1
        /\ ret.val[1].total = TotalCost

SignedHourSum(h) == SumOver(RowsInHour(data, h), data.netImbalanceVolume)

\* C5: on a non-empty series hour_with_highest_imbalance returns an hour in
\* 0..23 that occurs in the series and whose |sum of signed volume| is the
\* maximum over the hours present; among the hours that tie for the maximum
\* it returns the lowest.
C5_PeakHour ==
    (called = "hour_with_highest_imbalance" /\ Len(data.index) > 0) =>
        /\ ret.raised = "none"
        /\ ret.val \in 0..23
        /\ \E i \in Rows(data) : HourOf(data.index[i]) = ret.val
        /\ \A i \in Rows(data) :
              LET h == HourOf(data.index[i])
              IN  /\ Abs(SignedHourSum(h)) <= Abs(SignedHourSum(ret.val))
                  /\ Abs(SignedHourSum(h)) = Abs(SignedHourSum(ret.val))
                        => ret.val <= h

\* Hours 0 and 1 hold -1 and +1: both sums have absolute value 1, hour 0 wins.
C5_Witness ==
    /\ Returned("hour_with_highest_imbalance")
    /\ data.index = <<48, 50>>
    /\ data.netImbalanceVolume = <<0 - 1, 1>>
    /\ ret.val = 0

\* C6: calculate_hourly_imbalance_cost returns a mapping whose keys are
\* exactly the hours of the day that have an interval in the series, each
\* with the sum of the directional costs of its intervals over all days.
C6_HourlyCost ==
    (called = "calculate_hourly_imbalance_cost" /\ HasRequired) =>
        /\ ret.raised = "none"
        /\ DOMAIN ret.val = {h \in 0..23 : \E i \in Rows(data) : HourOf(data.index[i]) = h}
        /\ \A h \in DOMAIN ret.val :
              ret.val[h] = SumOver({i \in Rows(data) : HourOf(data.index[i]) = h},
                                   [i \in Rows(data) |-> IntervalCost(i)])

\* Two intervals at 00:00 of two different days, +1 and -1 at sell 1, buy 2:
\* hour 0 is the only key and costs 2 + 1.
C6_Witness ==
    /\ Returned("calculate_hourly_imbalance_cost")
    /\ data.index = <<48, 384>>
    /\ data.netImbalanceVolume = <<1, 0 - 1>>
    /\ data.systemSellPrice = <<1, 1>>
    /\ data.systemBuyPrice = <<2, 2>>
    /\ DOMAIN ret.val = {0}
    /\ ret.val[0] = 3

NonNegativePrices ==
    \A i \in Rows(data) : data.systemSellPrice[i] >= 0 /\ data.systemBuyPrice[i] >= 0

\* C7: with non-negative sell and buy prices and volumes of any sign, every
\* cached imbalanceCost is >= 0 once calculate_daily_imbalance_cost has run,
\* and the total it returns is >= 0.
C7_CostNonNegative ==
    (HasRequired /\ NonNegativePrices) =>
        /\ "imbalanceCost" \in data.columns =>
              \A i \in Rows(data) : data.imbalanceCost[i] >= 0
        /\ called = "calculate_daily_imbalance_cost" => ret.val >= 0

C7_Witness ==
    /\ Returned("calculate_daily_imbalance_cost")
    /\ NonNegativePrices
    /\ data.netImbalanceVolume = <<0 - 1, 1>>
    /\ data.imbalanceCost = <<1, 2>>
    /\ ret.val = 3

\* C8: with the volume and price fields unchanged, no call changes the
\* imbalanceCost that the first call of calculate_daily_imbalance_cost
\* wrote, a later call of it returns the sum of those costs again, and two
\* calls in a row return the same value.
C8_DailyCostIdempotent ==
    [][("imbalanceCost" \in data.columns
          /\ data'.netImbalanceVolume = data.netImbalanceVolume
          /\ data'.systemSellPrice = data.systemSellPrice
          /\ data'.systemBuyPrice = data.systemBuyPrice) =>
          /\ data'.imbalanceCost = data.imbalanceCost
          /\ called' = "calculate_daily_imbalance_cost" =>
                /\ ret'.raised = "none"
                /\ ret'.val = SumSeq(data.imbalanceCost)
                /\ called = "calculate_daily_imbalance_cost" => ret' = ret]_vars

\* A second call of calculate_daily_imbalance_cost, made after the hourly
\* cost and the weekly trend were computed, returns 3 over the costs 2, 1.
C8_Witness ==
    /\ Returned("calculate_daily_imbalance_cost")
    /\ cost_calls = 2
    /\ {"hourlyImbalanceCost", "date"} \subseteq data.columns
    /\ data.imbalanceCost = <<2, 1>>
    /\ ret.val = 3

\* Every interval has volume v and sell price = buy price = p.
Uniform(v, p) ==
    \A i \in Rows(data) :
        /\ data.netImbalanceVolume[i] = v
        /\ data.systemSellPrice[i] = p
        /\ data.systemBuyPrice[i] = p

UniformPrices == {pp[1] : pp \in {x \in PricePairs : x[1] = x[2]}}

\* C9 as stated: when every interval has the same volume and the sell and
\* buy prices all equal one price, calculate_unit_rate returns that price,
\* whatever the common volume.
C9_UniformRateAnyVolume ==
    (called = "calculate_unit_rate" /\ HasRequired /\ Len(data.index) > 0) =>
        \A v \in Volumes : \A p \in UniformPrices :
            Uniform(v, p) => ret.val = [num |-> p, den |-> 1]

\* C9 amended: on a non-empty series in which every interval has the same
\* volume v # 0 and the sell and buy prices all equal one price,
\* calculate_unit_rate returns that price, whatever the sign of v; with
\* v = 0 it returns 0.
C9_UniformRate ==
    (called = "calculate_unit_rate" /\ HasRequired /\ Len(data.index) > 0) =>
        \A v \in Volumes : \A p \in UniformPrices :
            Uniform(v, p) =>
                ret.val = IF v = 0 THEN [num |-> 0, den |-> 1]
                          ELSE [num |-> p, den |-> 1]

\* Two intervals of volume -1 at the price 2: the unit rate is 2.
C9_Witness ==
    /\ Returned("calculate_unit_rate")
    /\ Len(data.index) = 2
    /\ Uniform(0 - 1, 2)
    /\ ret.val = [num |-> 2, den |-> 1]

\* C10: calculate_daily_average_imbalance on a series with no interval
\* returns 0: no error and no NaN.
C10_EmptyAverageIsZero ==
    (called = "calculate_daily_average_imbalance" /\ Len(data.index) = 0) =>
        /\ ret.raised = "none"
        /\ ret.val = [num |-> 0, den |-> 1]

\* The volumes alternate +v, -v over an even, non-zero number of intervals.
Alternating(v) ==
    /\ Len(data.index) > 0
    /\ Len(data.index) % 2 = 0
    /\ \A i \in Rows(data) :
          data.netImbalanceVolume[i] = IF i % 2 = 1 THEN v ELSE 0 - v

\* C11: when the volumes alternate +V, -V with the same |V| over an even
\* number of intervals, calculate_daily_average_imbalance returns 0,
\* whatever the prices and whatever was called before.
C11_AlternatingAverageIsZero ==
    (called = "calculate_daily_average_imbalance"
        /\ \E v \in Volumes : Alternating(v)) =>
        /\ ret.raised = "none"
        /\ ret.val = [num |-> 0, den |-> 1]

\* Volumes +1, -1, with the cost, the hourly cost and the weekly trend
\* computed before the average was asked for.
C11_Witness ==
    /\ Returned("calculate_daily_average_imbalance")
    /\ Alternating(1)
    /\ {"imbalanceCost", "hourlyImbalanceCost", "date"} \subseteq data.columns
    /\ ret.val = [num |-> 0, den |-> 1]

\* C12: when a constituent calculation fails (a required column is absent,
\* or the series has no hour to be the peak), generate_report_message fails
\* as a whole and returns no summary, and save_report leaves the report
\* file as it was; with a required column absent the failure is a KeyError.
C12_FailureAbortsReport ==
    [][(called' \in {"generate_report_message", "save_report"}
          /\ (~(RequiredColumns \subseteq data.columns) \/ Len(data.index) = 0)) =>
          /\ ret'.raised # "none"
          /\ ret'.val = 0
          /\ report_file' = report_file
          /\ ~(RequiredColumns \subseteq data.columns) => ret'.raised = "KeyError"]_vars

\* save_report on a series whose systemSellPrice column was dropped: a
\* KeyError and no report file.
C12_Witness ==
    /\ called = "save_report"
    /\ "systemSellPrice" \notin data.columns
    /\ Len(data.index) > 0
    /\ ret.raised = "KeyError"
    /\ report_file = <<>>

DerivedColumns == {"imbalanceCost", "hour", "hourlyImbalanceCost", "date"}

\* C13 as stated: no operation changes the series other than by populating
\* imbalanceCost: no other column is added or modified.
C13_OnlyCostCacheChanges ==
    [][/\ data'.columns \subseteq data.columns \cup {"imbalanceCost"}
       /\ [data' EXCEPT !.columns = {}, !.imbalanceCost = <<>>]
            = [data EXCEPT !.columns = {}, !.imbalanceCost = <<>>]]_vars

\* C13 amended: no operation changes the timestamps, the prices or the
\* volumes or removes a column; an operation only adds or overwrites the
\* derived columns imbalanceCost, hour, hourlyImbalanceCost and date.
C13_OnlyDerivedColumnsChange ==
    [][/\ data'.index = data.index
       /\ data'.netImbalanceVolume = data.netImbalanceVolume
       /\ data'.systemSellPrice = data.systemSellPrice
       /\ data'.systemBuyPrice = data.systemBuyPrice
       /\ data.columns \subseteq data'.columns
       /\ data'.columns \subseteq data.columns \cup DerivedColumns]_vars

\* After the hourly cost of a two-interval series: the columns hour and
\* hourlyImbalanceCost were added to the three the series came with.
C13_Witness ==
    /\ Returned("calculate_hourly_imbalance_cost")
    /\ Len(data.index) = 2
    /\ data.columns = RequiredColumns \cup {"hour", "hourlyImbalanceCost"}
    /\ data.hour = <<0, 1>>

\* C15: on a series with no interval hour_with_highest_imbalance returns no
\* hour: it fails with pandas' ValueError; generate_report_message then
\* fails too and produces no summary.
C15_EmptySeriesHasNoPeakHour ==
    Len(data.index) = 0 =>
        /\ called = "hour_with_highest_imbalance" => ret.raised = "ValueError"
        /\ called = "generate_report_message" =>
              (ret.raised \in {"ValueError", "KeyError"} /\ ret.val = 0)

C15_Witness ==
    /\ called = "generate_report_message"
    /\ Len(data.index) = 0
    /\ HasRequired
    /\ ret.raised = "ValueError"

\* The Sunday that ends the calendar week of the day dt (day 6 is a Sunday).
WeekEnding(dt) == CHOOSE w \in dt..(dt + 6) : w % 7 = 6

\* C14: with a populated cost cache calculate_weekly_trend puts every
\* interval, by its date alone, in the week bucket labelled by the first
\* Sunday on or after that date; the buckets come in strictly increasing
\* order, every interval's cost is counted in exactly one bucket, each
\* bucket holds the costs of its days and the totals add up to the sum of
\* all per-interval costs.
C14_WeeklyTrend ==
    (called = "calculate_weekly_trend" /\ "imbalanceCost" \in data.columns) =>
        /\ ret.raised = "none"
        /\ \A k \in 1..(Len(ret.val) - 1) : ret.val[k].week < ret.val[k + 1].week
        /\ \A i \in Rows(data) :
              Cardinality({k \in DOMAIN ret.val :
                  ret.val[k].week = WeekEnding(data.index[i] \div 48)}) = 1
        /\ \A k \in DOMAIN ret.val :
              /\ ret.val[k].week % 7 = 6
              /\ ret.val[k].total =
                    SumOver({i \in Rows(data) :
                                WeekEnding(data.index[i] \div 48) = ret.val[k].week},
                            data.imbalanceCost)
        /\ SumSeq([k \in DOMAIN ret.val |-> ret.val[k].total])
              = SumSeq(data.imbalanceCost)

\* Tuesday and Sunday of the first week cost 2 and 1: one bucket, labelled
\* by that Sunday (day 6), with total 3.
C14_Witness ==
    /\ Returned("calculate_weekly_trend")
    /\ data.index = <<48, 288>>
    /\ data.imbalanceCost = <<2, 1>>
    /\ ret.val = <<[week |-> 6, total |-> 3]>>

\* A raw record with startTime and with numbers for the two prices and the
\* volume.
WellFormed(record) ==
    /\ record.startTime.kind = "iso"
    /\ record.systemSellPrice.kind = "number"
    /\ record.systemBuyPrice.kind = "number"
    /\ record.netImbalanceVolume.kind = "number"

\* C16: get_system_prices returns a series only if every record has
\* startTime and numeric prices and volume; if any record lacks a field or
\* holds a value that is no number, the call fails and no series is returned,
\* not even one built from the well-formed records.
C16_MalformedRecordFails ==
    called = "get_system_prices" =>
        /\ ret.raised = "none" => \A i \in DOMAIN response : WellFormed(response[i])
        /\ (\E i \in DOMAIN response : ~WellFormed(response[i])) =>
              /\ ret.raised # "none"
              /\ data = NoDataFrame

\* What the conversion does guarantee: a record that lacks a field, or holds
\* a string or null where a number is expected, fails the call and leaves no
\* series; a series that is returned holds the records' values in order.
C16_MissingOrTextFails ==
    called = "get_system_prices" =>
        /\ (\E i \in DOMAIN response :
               \E key \in {"startTime", "systemSellPrice",
                           "systemBuyPrice", "netImbalanceVolume"} :
                   response[i][key].kind \in {"absent", "text", "null"}) =>
              /\ ret.raised \in {"KeyError", "ValueError", "TypeError"}
              /\ data = NoDataFrame
        /\ ret.raised = "none" =>
              /\ data.index = [i \in DOMAIN response |-> response[i].startTime.value]
              /\ data.netImbalanceVolume
                    = [i \in DOMAIN response |-> response[i].netImbalanceVolume.value]

\* A well-formed record followed by one whose sell price is a string: a
\* ValueError and no series.
C16_Witness ==
    /\ called = "get_system_prices"
    /\ Len(response) = 2
    /\ WellFormed(response[1])
    /\ response[2].systemSellPrice.kind = "text"
    /\ ret.raised = "ValueError"
    /\ data = NoDataFrame

\* A summary with the weekly trend was produced.
Summary(called_, ret_) ==
    /\ called_ = "generate_report_message"
    /\ ret_.raised = "none"
    /\ ret_.val.include_weekly_trend

\* C17: in a summary produced by generate_report_message with the weekly
\* trend, the bucket totals of the weekly trend add up to the total cost of
\* the same summary, whatever the cost cache held before the call, and a
\* second call right after the first produces the same summary.
C17_WeeklyTrendMatchesTotalCost ==
    [][Summary(called', ret') =>
          /\ Format2f(Div(SumSeq([k \in DOMAIN ret'.val.weekly_trend |->
                                     ret'.val.weekly_trend[k].total]), 1))
                = ret'.val.total_cost
          /\ Summary(called, ret) => ret'.val = ret.val]_vars

\* A report was saved, the volumes were changed to 1 throughout after that,
\* leaving the cost cache stale, and the summary produced then has a total
\* cost other than the saved one, matched by its weekly trend.
C17_Witness ==
    /\ Summary(called, ret)
    /\ report_file # <<>>
    /\ Len(data.index) = 2
    /\ data.netImbalanceVolume = <<1, 1>>
    /\ report_file[1].total_cost # ret.val.total_cost
    /\ ret.val.total_cost.num # 0
    /\ Len(ret.val.weekly_trend) = 1
    /\ Div(ret.val.weekly_trend[1].total, 1) = ret.val.total_cost

====
